---- MODULE Spec2Model ----
(***************************************************************************)
(* A model of the eventhorizon MongoDB event store (mongodb.go) and Redis  *)
(* event bus.  The store part models MongoEventStore.Save / Load /         *)
(* RegisterEventType / Clear run by concurrent callers against one         *)
(* "events" collection; every database operation is one atomic step, as a *)
(* single-document MongoDB operation is.  The bus part models two          *)
(* RedisEventBus instances, each in a process of its own, on one Redis     *)
(* server: their connection supervisors (connectAndSubscribe), receive     *)
(* loops (receiveGlobal), PublishEvent, Close and the registrations.       *)
(***************************************************************************)
EXTENDS Integers, Sequences, FiniteSets, TLC

\* ------------------------------------------------------------------ bounds

\* Longest batch a caller hands to Save.
MaxBatch == 2

\* Publish calls, registration calls and transport failures in a run.
MaxPublish == 1
MaxRegs == 2
MaxFaults == 2

\* PUBLISH commands of other clients of the namespace in a run.
MaxRemote == 2

\* ------------------------------------------------------------- the domain

\* Aggregate ids, event types (the EventType() tags) and event contents.
\* "Opaque" is an event type whose content, a channel, bson.Marshal cannot
\* serialize; a "Deposited" event carries an amount.
Ids == {"a", "b"}
EventTypes == {"Deposited", "Opaque"}
Payloads == {"10", "5", "chan"}
Event(i, t, d) == [id |-> i, type |-> t, data |-> d]
Events ==
    {Event("a", "Deposited", "10"), Event("a", "Deposited", "5"),
     Event("b", "Deposited", "10"), Event("a", "Opaque", "chan")}

\* The goroutines calling Save.
Writers == {"w1", "w2"}

\* The bus instances, the handlers their programs register, and the events
\* their programs publish.
Buses == {"A", "B"}
Handlers == {"h1", "h2"}
BusEvents == {Event("a", "Deposited", "10"), Event("a", "Opaque", "chan")}

Nil == "nil"
ErrNoEventsToAppend == "ErrNoEventsToAppend"
ErrCouldNotLoadAggregate == "ErrCouldNotLoadAggregate"
ErrCouldNotMarshalEvent == "ErrCouldNotMarshalEvent"
ErrCouldNotSaveAggregate == "ErrCouldNotSaveAggregate"
ErrEventNotRegistered == "ErrEventNotRegistered"
ErrCouldNotUnmarshalEvent == "ErrCouldNotUnmarshalEvent"
ErrCouldNotClearDB == "ErrCouldNotClearDB"
ErrHandlerAlreadySet == "ErrHandlerAlreadySet"

\* ------------------------------------------------------------------ codec

\* bson.Marshal(event): the document of the event's fields.  The Go type of
\* the event is not part of the document; it travels as the record's type
\* tag.  ok = FALSE is the marshal error.
Marshal(e) ==
    IF e.type = "Opaque"
    THEN [ok |-> FALSE, doc |-> <<>>]
    ELSE [ok |-> TRUE, doc |-> <<e.id, e.data>>]

\* An Unmarshal that leaves the zero value of the factory unfilled.
UnmarshalUnfilled(concrete, doc) ==
    [ok |-> Len(doc) = 2, event |-> [id |-> "", type |-> concrete, data |-> ""]]

\* f(); data.Unmarshal(event): a zero value of the concrete type the factory
\* builds, filled from the document.  A document that is no event document
\* (the empty one) does not unmarshal.
Unmarshal(concrete, doc) ==
    IF Len(doc) = 2
    THEN [ok |-> TRUE, event |-> [id |-> doc[1], type |-> concrete, data |-> doc[2]]]
    ELSE [ok |-> FALSE, event |-> [id |-> "", type |-> concrete, data |-> ""]]

\* ------------------------------------------------------------------ state

VARIABLES
    coll,         \* the "events" collection: a set of mongoAggregateRecord
    s_eventBus,   \* MongoEventStore.eventBus # nil (the store is built with a bus)
    s_factories,  \* MongoEventStore.factories: tag -> concrete type built, or Nil
    s_pc,         \* per Save caller: idle, probe, write, publish, done
    s_n,          \* per Save caller: len(events) of its call
    s_batch,      \* per Save caller: the events of its batch read so far
    s_existing,   \* per Save caller: the probe's result (<<>> or <<version>>)
    s_err,        \* per Save caller: the value Save returned
    s_fault,      \* per Save caller: its last database operation failed in the storage
    s_log,        \* per Save caller: what its call committed, in order
    s_appends,    \* per id: conditional appends that returned success since the stream's insert
    s_published,  \* per Save caller: the events its call handed to eventBus.PublishEvent
    s_regErr,     \* what the last RegisterEventType call on the store returned
    loadOut       \* what the last Load returned, until the next operation on the store

VARIABLES
    up,                \* the Redis server is reachable
    faults,            \* transport failures so far
    ready,             \* per bus: the ready channel: open, closed, or err (an error was sent)
    sup,               \* per bus: where connectAndSubscribe stands
    isRetry,           \* per bus: connectAndSubscribe's isRetry
    b_conn,            \* per bus: RedisEventBus.conn and what the server holds for it
    rcv,               \* per bus: the receiveGlobal goroutine: none, running, exited
    receiveGlobalDone, \* per bus: the channel receiveGlobalDone: empty, true, false
    b_eventHandlers,   \* per bus: RedisEventBus.eventHandlers
    b_localHandlers,   \* per bus: RedisEventBus.localHandlers
    b_globalHandlers,  \* per bus: RedisEventBus.globalHandlers
    b_factories,       \* per bus: RedisEventBus.factories: tag -> concrete type built, or Nil
    b_regErr,          \* per bus: what the last RegisterEventType call returned
    nRegs,             \* registration calls so far
    closeCalled,       \* per bus: Close() was called
    p_pc,              \* per bus: where its PublishEvent caller stands
    p_event,           \* per bus: the event of the PublishEvent call
    p_seq,             \* per bus: the number of the PublishEvent call
    p_snap,            \* per bus: the handler tables as PublishEvent was called
    p_conn,            \* per bus: the connection publishGlobal got from the pool
    p_log,             \* per bus: the local dispatches of PublishEvent, in order
    g_log,             \* per bus: the dispatches of receiveGlobal, in order
    nPub,              \* PublishEvent calls so far
    ranging            \* per bus and handler table: the range loop over the table

b_vars == <<up, faults, ready, sup, isRetry, b_conn, rcv, receiveGlobalDone,
            b_eventHandlers, b_localHandlers, b_globalHandlers, b_factories,
            b_regErr, nRegs, closeCalled, p_pc, p_event, p_seq, p_snap, p_conn,
            p_log, g_log, nPub, ranging>>

s_vars == <<coll, s_eventBus, s_factories, s_pc, s_n, s_batch, s_existing,
            s_err, s_fault, s_log, s_appends, s_published, s_regErr, loadOut>>

vars == <<s_vars, b_vars>>

\* ------------------------------------------------------- the collection

\* FindId(id).Limit(1).All(&existing)
FindId(c, id) == {d \in c : d.id = id}

\* The record Save builds for event e at version v (lines 135-140, 155).
EventRecord(e, v) == [type |-> e.type, version |-> v, data |-> Marshal(e).doc]

\* An Insert into a collection with no unique key: it never collides.
InsertNoUniqueKey(c, id) == TRUE

\* C("events").Insert(aggregate): _id is the collection's unique key.
InsertOk(c, id) == FindId(c, id) = {}

Inserted(c, e) ==
    c \cup {[id |-> e.id, version |-> 1, events |-> <<EventRecord(e, 1)>>]}

\* The documents the Update selector {"_id": id, "version": version} matches,
\* without the version condition.
MatchedAnyVersion(c, id, v) == {d \in c : d.id = id}

\* The documents the Update selector {"_id": id, "version": version} matches.
Matched(c, id, v) == {d \in c : d.id = id /\ d.version = v}

\* $push events r, $inc version 1, with the version incremented twice.
PushedTwice(d, r) == [d EXCEPT !.version = @ + 2, !.events = Append(@, r)]

\* A $set of the events array in place of the $push.
PushedReplacing(d, r) == [d EXCEPT !.version = @ + 1, !.events = <<r>>]

\* {"$push": {"events": r}, "$inc": {"version": 1}} on one document.
Pushed(d, r) == [d EXCEPT !.version = @ + 1, !.events = Append(@, r)]

Updated(c, e, v) ==
    LET d == CHOOSE x \in Matched(c, e.id, v) : TRUE
    IN  (c \ {d}) \cup {Pushed(d, EventRecord(e, v + 1))}

\* --------------------------------------------------------------- Save

NoLoad == [id |-> "", err |-> Nil, events |-> <<>>, called |-> FALSE]

\* What every step of Save and Clear leaves of the registry and of the last
\* Load's result.
SaveFrame == s_regErr' = s_regErr /\ loadOut' = NoLoad /\ UNCHANGED b_vars

\* The event the loop of Save is at.
Cur(w) == s_batch[w][Len(s_batch[w])]

\* Save(events) is called with a batch of n events (lines 111-117).
SaveCall(w, n) ==
    /\ SaveFrame
    /\ s_pc[w] = "idle"
    /\ s_n' = [s_n EXCEPT ![w] = n]
    /\ IF n = 0
       THEN /\ s_pc' = [s_pc EXCEPT ![w] = "done"]
            /\ s_err' = [s_err EXCEPT ![w] = ErrNoEventsToAppend]
       ELSE /\ s_pc' = [s_pc EXCEPT ![w] = "probe"]
            /\ UNCHANGED s_err
    /\ UNCHANGED <<coll, s_eventBus, s_factories, s_batch, s_existing, s_fault,
                   s_log, s_appends, s_published>>

\* One iteration's head (lines 119-140): the loop reads the next event e of
\* the batch, probes its aggregate and marshals it.  dbOk = FALSE is a
\* failing query.
SaveProbe(w, e, dbOk) ==
    /\ SaveFrame
    /\ s_pc[w] = "probe"
    /\ s_batch' = [s_batch EXCEPT ![w] = Append(@, e)]
    /\ s_fault' = [s_fault EXCEPT ![w] = ~dbOk]
    /\ IF ~dbOk \/ Cardinality(FindId(coll, e.id)) > 1
       THEN /\ s_pc' = [s_pc EXCEPT ![w] = "done"]
            /\ s_err' = [s_err EXCEPT ![w] = ErrCouldNotLoadAggregate]
            /\ UNCHANGED s_existing
       ELSE IF ~Marshal(e).ok
       THEN /\ s_pc' = [s_pc EXCEPT ![w] = "done"]
            /\ s_err' = [s_err EXCEPT ![w] = ErrCouldNotMarshalEvent]
            /\ UNCHANGED s_existing
       ELSE /\ s_pc' = [s_pc EXCEPT ![w] = "write"]
            /\ s_existing' = [s_existing EXCEPT ![w] =
                 IF FindId(coll, e.id) = {} THEN <<>>
                 ELSE <<(CHOOSE d \in FindId(coll, e.id) : TRUE).version>>]
            /\ UNCHANGED s_err
    /\ UNCHANGED <<coll, s_eventBus, s_factories, s_n, s_log,
                   s_appends, s_published>>

\* An insert whose failure is skipped over: the loop goes on to the next
\* event in place of returning.
SaveInsertContinuing(w, dbOk) ==
    LET e == Cur(w) IN
    /\ SaveFrame
    /\ s_pc[w] = "write"
    /\ s_existing[w] = <<>>
    /\ s_fault' = [s_fault EXCEPT ![w] = ~dbOk]
    /\ IF dbOk /\ InsertOk(coll, e.id)
       THEN /\ coll' = Inserted(coll, e)
            /\ s_pc' = [s_pc EXCEPT ![w] = "publish"]
            /\ s_log' = [s_log EXCEPT ![w] = Append(@,
                 [id |-> e.id, version |-> 1, op |-> "insert", live |-> TRUE])]
            /\ s_appends' = [s_appends EXCEPT ![e.id] = 0]
            /\ UNCHANGED s_err
       ELSE /\ s_pc' = [s_pc EXCEPT ![w] =
                 IF Len(s_batch[w]) = s_n[w] THEN "done" ELSE "probe"]
            /\ s_err' = [s_err EXCEPT ![w] = ErrCouldNotSaveAggregate]
            /\ UNCHANGED <<coll, s_log, s_appends>>
    /\ UNCHANGED <<s_eventBus, s_factories, s_n, s_batch, s_existing, s_published>>

\* Insert a new aggregate (lines 143-152).
SaveInsert(w, dbOk) ==
    LET e == Cur(w) IN
    /\ SaveFrame
    /\ s_pc[w] = "write"
    /\ s_existing[w] = <<>>
    /\ s_fault' = [s_fault EXCEPT ![w] = ~dbOk]
    /\ IF dbOk /\ InsertOk(coll, e.id)
       THEN /\ coll' = Inserted(coll, e)
            /\ s_pc' = [s_pc EXCEPT ![w] = "publish"]
            /\ s_log' = [s_log EXCEPT ![w] = Append(@,
                 [id |-> e.id, version |-> 1, op |-> "insert", live |-> TRUE])]
            /\ s_appends' = [s_appends EXCEPT ![e.id] = 0]
            /\ UNCHANGED s_err
       ELSE /\ s_pc' = [s_pc EXCEPT ![w] = "done"]
            /\ s_err' = [s_err EXCEPT ![w] = ErrCouldNotSaveAggregate]
            /\ UNCHANGED <<coll, s_log, s_appends>>
    /\ UNCHANGED <<s_eventBus, s_factories, s_n, s_batch, s_existing, s_published>>

\* An append that goes on to the publication whether or not the update
\* matched.
SaveUpdatePublishingAnyway(w, dbOk) ==
    LET e == Cur(w)
        v == s_existing[w][1]
    IN
    /\ SaveFrame
    /\ s_pc[w] = "write"
    /\ s_existing[w] # <<>>
    /\ s_fault' = [s_fault EXCEPT ![w] = ~dbOk]
    /\ s_pc' = [s_pc EXCEPT ![w] = "publish"]
    /\ IF dbOk /\ Matched(coll, e.id, v) # {}
       THEN /\ coll' = Updated(coll, e, v)
            /\ s_log' = [s_log EXCEPT ![w] = Append(@,
                 [id |-> e.id, version |-> v + 1, op |-> "append", live |-> TRUE])]
            /\ s_appends' = [s_appends EXCEPT ![e.id] = @ + 1]
            /\ UNCHANGED s_err
       ELSE /\ s_err' = [s_err EXCEPT ![w] = ErrCouldNotSaveAggregate]
            /\ UNCHANGED <<coll, s_log, s_appends>>
    /\ UNCHANGED <<s_eventBus, s_factories, s_n, s_batch, s_existing, s_published>>

\* Append to an existing aggregate if its version is still the probed one
\* (lines 153-173).
SaveUpdate(w, dbOk) ==
    LET e == Cur(w)
        v == s_existing[w][1]
    IN
    /\ SaveFrame
    /\ s_pc[w] = "write"
    /\ s_existing[w] # <<>>
    /\ s_fault' = [s_fault EXCEPT ![w] = ~dbOk]
    /\ IF dbOk /\ Matched(coll, e.id, v) # {}
       THEN /\ coll' = Updated(coll, e, v)
            /\ s_pc' = [s_pc EXCEPT ![w] = "publish"]
            /\ s_log' = [s_log EXCEPT ![w] = Append(@,
                 [id |-> e.id, version |-> v + 1, op |-> "append", live |-> TRUE])]
            /\ s_appends' = [s_appends EXCEPT ![e.id] = @ + 1]
            /\ UNCHANGED s_err
       ELSE /\ s_pc' = [s_pc EXCEPT ![w] = "done"]
            /\ s_err' = [s_err EXCEPT ![w] = ErrCouldNotSaveAggregate]
            /\ UNCHANGED <<coll, s_log, s_appends>>
    /\ UNCHANGED <<s_eventBus, s_factories, s_n, s_batch, s_existing, s_published>>

\* Publish the event on the bus, then the next iteration or return nil
\* (lines 175-181).
SavePublish(w) ==
    /\ SaveFrame
    /\ s_pc[w] = "publish"
    /\ s_published' = IF s_eventBus
                      THEN [s_published EXCEPT ![w] = Append(@, Cur(w))]
                      ELSE s_published
    /\ IF Len(s_batch[w]) = s_n[w]
       THEN /\ s_pc' = [s_pc EXCEPT ![w] = "done"]
            /\ s_err' = [s_err EXCEPT ![w] = Nil]
       ELSE /\ s_pc' = [s_pc EXCEPT ![w] = "probe"]
            /\ UNCHANGED s_err
    /\ UNCHANGED <<coll, s_eventBus, s_factories, s_n, s_batch, s_existing,
                   s_fault, s_log, s_appends>>

\* Clear drops the collection (lines 245-250).  A failing drop changes
\* nothing.
Clear(dbOk) ==
    /\ SaveFrame
    /\ IF dbOk
       THEN /\ coll' = {}
            /\ s_log' = [w \in Writers |->
                 [j \in 1..Len(s_log[w]) |-> [s_log[w][j] EXCEPT !.live = FALSE]]]
            /\ s_appends' = [i \in Ids |-> 0]
       ELSE UNCHANGED <<coll, s_log, s_appends>>
    /\ UNCHANGED <<s_eventBus, s_factories, s_pc, s_n, s_batch, s_existing,
                   s_err, s_fault, s_published>>

\* ------------------------------------------------- Load, the registry

\* The decoding loop of Load (lines 199-219) over the records from the k-th
\* on: the events decoded, or the first error.
RECURSIVE DecodeFrom(_, _)
DecodeFrom(records, k) ==
    IF k > Len(records) THEN [err |-> Nil, events |-> <<>>]
    ELSE LET r == records[k]
             f == s_factories[r.type]
             u == Unmarshal(f, r.data)
             rest == DecodeFrom(records, k + 1)
         IN  IF f = Nil THEN [err |-> ErrEventNotRegistered, events |-> <<>>]
             ELSE IF ~u.ok THEN [err |-> ErrCouldNotUnmarshalEvent, events |-> <<>>]
             ELSE IF rest.err # Nil THEN rest
             ELSE [err |-> Nil, events |-> <<u.event>> \o rest.events]

\* A Load that treats a missing aggregate as a failed query.
LoadResultMissingIsError(id, dbOk) ==
    IF ~dbOk \/ Cardinality(FindId(coll, id)) # 1
    THEN [err |-> ErrCouldNotLoadAggregate, events |-> <<>>]
    ELSE DecodeFrom((CHOOSE d \in FindId(coll, id) : TRUE).events, 1)

\* Load(id) (lines 186-222).  dbOk = FALSE is a failing query.
LoadResult(id, dbOk) ==
    IF ~dbOk \/ Cardinality(FindId(coll, id)) > 1
    THEN [err |-> ErrCouldNotLoadAggregate, events |-> <<>>]
    ELSE IF FindId(coll, id) = {}
    THEN [err |-> Nil, events |-> <<>>]
    ELSE DecodeFrom((CHOOSE d \in FindId(coll, id) : TRUE).events, 1)

Load(id, dbOk) ==
    /\ UNCHANGED b_vars
    /\ loadOut' = [id |-> id, err |-> LoadResult(id, dbOk).err,
                   events |-> LoadResult(id, dbOk).events, called |-> TRUE]
    /\ UNCHANGED <<coll, s_eventBus, s_factories, s_pc, s_n, s_batch, s_existing,
                   s_err, s_fault, s_log, s_appends, s_published, s_regErr>>

\* RegisterEventType(event, factory) on the store (lines 229-237): tag is
\* event.EventType(), concrete the type of the events the factory builds.
S_RegisterEventType(tag, concrete) ==
    /\ IF s_factories[tag] # Nil
       THEN /\ s_regErr' = ErrHandlerAlreadySet
            /\ UNCHANGED s_factories
       ELSE /\ s_factories' = [s_factories EXCEPT ![tag] = concrete]
            /\ s_regErr' = Nil
    /\ loadOut' = NoLoad
    /\ UNCHANGED <<coll, s_eventBus, s_pc, s_n, s_batch, s_existing,
                   s_err, s_fault, s_log, s_appends, s_published>>
    /\ UNCHANGED b_vars

\* ---------------------------------------------------------------- the bus

\* RedisEventBus.conn: none before the first assignment; open; broken once
\* the transport failed under it; closed after conn.Close().  sub and inbox
\* are the server's side: the pattern subscription and what it has queued
\* for Receive.
NoConn == [st |-> "none", sub |-> FALSE, inbox |-> <<>>]
NewConn == [st |-> "open", sub |-> FALSE, inbox |-> <<>>]
DeadConn(st) == [st |-> st, sub |-> FALSE, inbox |-> <<>>]

\* What Receive returns: a redis.PMessage (channel prefix+t, payload doc; n
\* numbers the PublishEvent call it came from) or a redis.Subscription.
PMessage(t, doc, n) ==
    [kind |-> "pmessage", type |-> t, data |-> doc, seq |-> n, count |-> 0]
Subscription(kind, count) ==
    [kind |-> kind, type |-> "", data |-> <<>>, seq |-> 0, count |-> count]

\* The handler tables of a bus: eventHandlers[type] for each event type,
\* localHandlers and globalHandlers.
TableNames == EventTypes \cup {"local", "global"}

\* No range loop runs; a running one has handlers left to visit and
\* handlers it has invoked.
NoRange == [on |-> FALSE, left |-> {}, to |-> {}]

\* The process of bus b runs (no goroutine of it has panicked).
Alive(b) == sup[b] # "crashed"

\* NewRedisEventBusWithPool returned b to its program (lines 81-86).
Constructed(b) == ready[b] = "closed"

BusFrame == UNCHANGED <<s_vars, ranging>>

\* pool.Get() and conn.Err() in connectAndSubscribe (lines 175-184).  With
\* the server unreachable the supervisor logs, sleeps and tries again.
SupConnect(b) ==
    /\ sup[b] = "connect"
    /\ IF up
       THEN /\ b_conn' = [b_conn EXCEPT ![b] = NewConn]
            /\ sup' = [sup EXCEPT ![b] = "subscribe"]
       ELSE UNCHANGED <<b_conn, sup>>
    /\ UNCHANGED <<up, faults, ready, isRetry, rcv, receiveGlobalDone,
                   b_eventHandlers, b_localHandlers, b_globalHandlers,
                   b_factories, b_regErr, nRegs, closeCalled, p_pc, p_event,
                   p_seq, p_snap, p_conn, p_log, g_log, nPub>>
    /\ BusFrame

\* PSubscribe succeeded (lines 187, 194-202): the receive loop is started
\* and, on the first pass, ready is closed.
SupSubscribed(b) ==
    /\ sup[b] = "subscribe"
    /\ b_conn[b].st = "open"
    /\ b_conn' = [b_conn EXCEPT ![b].sub = TRUE,
                                ![b].inbox = Append(@, Subscription("psubscribe", 1))]
    /\ rcv' = [rcv EXCEPT ![b] = "running"]
    /\ ready' = [ready EXCEPT ![b] = IF isRetry[b] THEN @ ELSE "closed"]
    /\ sup' = [sup EXCEPT ![b] = "wait"]
    /\ UNCHANGED <<up, faults, isRetry, receiveGlobalDone,
                   b_eventHandlers, b_localHandlers, b_globalHandlers,
                   b_factories, b_regErr, nRegs, closeCalled, p_pc, p_event,
                   p_seq, p_snap, p_conn, p_log, g_log, nPub>>
    /\ BusFrame

\* A first PSubscribe failure that is retried like a later one.
SupSubscribeFailedRetrying(b) ==
    /\ sup[b] = "subscribe"
    /\ b_conn[b].st # "open"
    /\ IF ready[b] = "open"
       THEN /\ ready' = [ready EXCEPT ![b] = "err"]
            /\ sup' = [sup EXCEPT ![b] = "connect"]
            /\ UNCHANGED <<b_conn, rcv>>
       ELSE /\ sup' = [sup EXCEPT ![b] = "crashed"]
            /\ b_conn' = [b_conn EXCEPT ![b] = DeadConn("closed")]
            /\ rcv' = [rcv EXCEPT ![b] = "none"]
            /\ UNCHANGED ready
    /\ UNCHANGED <<up, faults, isRetry, receiveGlobalDone,
                   b_eventHandlers, b_localHandlers, b_globalHandlers,
                   b_factories, b_regErr, nRegs, closeCalled, p_pc, p_event,
                   p_seq, p_snap, p_conn, p_log, g_log, nPub>>
    /\ BusFrame

\* PSubscribe failed (lines 188-192): the error is sent on ready.  On the
\* first pass the constructor receives it, b.Close() fails on the broken
\* connection and the supervisor returns.  After ready was closed the send
\* panics, which ends the process.
SupSubscribeFailed(b) ==
    /\ sup[b] = "subscribe"
    /\ b_conn[b].st # "open"
    /\ IF ready[b] = "open"
       THEN /\ ready' = [ready EXCEPT ![b] = "err"]
            /\ sup' = [sup EXCEPT ![b] = "returned"]
            /\ UNCHANGED <<b_conn, rcv>>
       ELSE /\ sup' = [sup EXCEPT ![b] = "crashed"]
            /\ b_conn' = [b_conn EXCEPT ![b] = DeadConn("closed")]
            /\ rcv' = [rcv EXCEPT ![b] = "none"]
            /\ UNCHANGED ready
    /\ UNCHANGED <<up, faults, isRetry, receiveGlobalDone,
                   b_eventHandlers, b_localHandlers, b_globalHandlers,
                   b_factories, b_regErr, nRegs, closeCalled, p_pc, p_event,
                   p_seq, p_snap, p_conn, p_log, g_log, nPub>>
    /\ BusFrame

\* A supervisor that reconnects without waiting for the receive loop's exit.
SupWaitNotWaiting(b) ==
    /\ sup[b] = "wait"
    /\ receiveGlobalDone' = [receiveGlobalDone EXCEPT ![b] = "empty"]
    /\ b_conn' = [b_conn EXCEPT ![b] = DeadConn("closed")]
    /\ IF receiveGlobalDone[b] = "true"
       THEN /\ sup' = [sup EXCEPT ![b] = "returned"]
            /\ UNCHANGED isRetry
       ELSE /\ sup' = [sup EXCEPT ![b] = "connect"]
            /\ isRetry' = [isRetry EXCEPT ![b] = TRUE]
    /\ rcv' = [rcv EXCEPT ![b] =
                 IF receiveGlobalDone[b] = "empty" THEN @ ELSE "none"]
    /\ UNCHANGED <<up, faults, ready,
                   b_eventHandlers, b_localHandlers, b_globalHandlers,
                   b_factories, b_regErr, nRegs, closeCalled, p_pc, p_event,
                   p_seq, p_snap, p_conn, p_log, g_log, nPub>>
    /\ BusFrame

\* The receive loop signalled its exit (lines 204-220): the connection is
\* closed; after a clean exit the supervisor returns, otherwise it sleeps
\* and goes round again with isRetry set.
SupWait(b) ==
    /\ sup[b] = "wait"
    /\ receiveGlobalDone[b] # "empty"
    /\ receiveGlobalDone' = [receiveGlobalDone EXCEPT ![b] = "empty"]
    /\ rcv' = [rcv EXCEPT ![b] = "none"]
    /\ b_conn' = [b_conn EXCEPT ![b] = DeadConn("closed")]
    /\ IF receiveGlobalDone[b] = "true"
       THEN /\ sup' = [sup EXCEPT ![b] = "returned"]
            /\ UNCHANGED isRetry
       ELSE /\ sup' = [sup EXCEPT ![b] = "connect"]
            /\ isRetry' = [isRetry EXCEPT ![b] = TRUE]
    /\ UNCHANGED <<up, faults, ready,
                   b_eventHandlers, b_localHandlers, b_globalHandlers,
                   b_factories, b_regErr, nRegs, closeCalled, p_pc, p_event,
                   p_seq, p_snap, p_conn, p_log, g_log, nPub>>
    /\ BusFrame

\* The decoding of a PMessage in receiveGlobal (lines 229-244): the tag is
\* the channel's suffix, the factory that of the tag.
Decode(b, n) ==
    IF b_factories[b][n.type] = Nil
    THEN [ok |-> FALSE, event |-> Event("", "", "")]
    ELSE Unmarshal(b_factories[b][n.type], n.data)

\* The handlers receiveGlobal dispatches a decoded event to (lines 246-248).
GlobalTargets(b) == b_globalHandlers[b]

\* A message with a payload that cannot be decoded makes the receive loop
\* signal an unclean exit.
ReceivePMessageStopping(b) ==
    /\ rcv[b] = "running"
    /\ b_conn[b].st = "open"
    /\ b_conn[b].inbox # <<>>
    /\ Head(b_conn[b].inbox).kind = "pmessage"
    /\ LET n == Head(b_conn[b].inbox) IN
         IF Decode(b, n).ok
         THEN /\ g_log' = [g_log EXCEPT ![b] = Append(@,
                    [seq |-> n.seq, event |-> Decode(b, n).event,
                     to |-> GlobalTargets(b)])]
              /\ UNCHANGED <<rcv, receiveGlobalDone>>
         ELSE /\ receiveGlobalDone' = [receiveGlobalDone EXCEPT ![b] = "false"]
              /\ rcv' = [rcv EXCEPT ![b] = "exited"]
              /\ UNCHANGED g_log
    /\ b_conn' = [b_conn EXCEPT ![b].inbox = Tail(@)]
    /\ UNCHANGED <<up, faults, ready, sup, isRetry,
                   b_eventHandlers, b_localHandlers, b_globalHandlers,
                   b_factories, b_regErr, nRegs, closeCalled, p_pc, p_event,
                   p_seq, p_snap, p_conn, p_log, nPub>>
    /\ BusFrame

\* Receive returned a PMessage (lines 227-248): it is decoded and handed to
\* every global handler, or logged and skipped.
ReceivePMessage(b) ==
    /\ rcv[b] = "running"
    /\ b_conn[b].st = "open"
    /\ b_conn[b].inbox # <<>>
    /\ Head(b_conn[b].inbox).kind = "pmessage"
    /\ LET n == Head(b_conn[b].inbox) IN
         g_log' = IF Decode(b, n).ok
                  THEN [g_log EXCEPT ![b] = Append(@,
                          [seq |-> n.seq, event |-> Decode(b, n).event,
                           to |-> GlobalTargets(b)])]
                  ELSE g_log
    /\ b_conn' = [b_conn EXCEPT ![b].inbox = Tail(@)]
    /\ UNCHANGED <<up, faults, ready, sup, isRetry, rcv, receiveGlobalDone,
                   b_eventHandlers, b_localHandlers, b_globalHandlers,
                   b_factories, b_regErr, nRegs, closeCalled, p_pc, p_event,
                   p_seq, p_snap, p_conn, p_log, nPub>>
    /\ BusFrame

\* Receive returned a Subscription (lines 249-258): the loop ends cleanly on
\* a punsubscribe that leaves no subscription.
ReceiveSubscription(b) ==
    /\ rcv[b] = "running"
    /\ b_conn[b].st = "open"
    /\ b_conn[b].inbox # <<>>
    /\ Head(b_conn[b].inbox).kind # "pmessage"
    /\ b_conn' = [b_conn EXCEPT ![b].inbox = Tail(@)]
    /\ IF Head(b_conn[b].inbox).kind = "punsubscribe"
          /\ Head(b_conn[b].inbox).count = 0
       THEN /\ receiveGlobalDone' = [receiveGlobalDone EXCEPT ![b] = "true"]
            /\ rcv' = [rcv EXCEPT ![b] = "exited"]
       ELSE UNCHANGED <<receiveGlobalDone, rcv>>
    /\ UNCHANGED <<up, faults, ready, sup, isRetry,
                   b_eventHandlers, b_localHandlers, b_globalHandlers,
                   b_factories, b_regErr, nRegs, closeCalled, p_pc, p_event,
                   p_seq, p_snap, p_conn, p_log, g_log, nPub>>
    /\ BusFrame

\* Receive returned an error (lines 259-262): the loop ends uncleanly.
ReceiveError(b) ==
    /\ rcv[b] = "running"
    /\ b_conn[b].st # "open"
    /\ receiveGlobalDone' = [receiveGlobalDone EXCEPT ![b] = "false"]
    /\ rcv' = [rcv EXCEPT ![b] = "exited"]
    /\ UNCHANGED <<up, faults, ready, sup, isRetry, b_conn,
                   b_eventHandlers, b_localHandlers, b_globalHandlers,
                   b_factories, b_regErr, nRegs, closeCalled, p_pc, p_event,
                   p_seq, p_snap, p_conn, p_log, g_log, nPub>>
    /\ BusFrame

\* Close() (lines 144-149): PUnsubscribe on b.conn.  On an open connection
\* the server drops the subscription and answers with a punsubscribe that
\* leaves none; on a broken or closed one the call fails and is logged.
Close(b) ==
    /\ Constructed(b) /\ Alive(b)
    /\ ~closeCalled[b]
    /\ closeCalled' = [closeCalled EXCEPT ![b] = TRUE]
    /\ IF b_conn[b].st = "open"
       THEN b_conn' = [b_conn EXCEPT ![b].sub = FALSE,
                         ![b].inbox = Append(@, Subscription("punsubscribe", 0))]
       ELSE UNCHANGED b_conn
    /\ UNCHANGED <<up, faults, ready, sup, isRetry, rcv, receiveGlobalDone,
                   b_eventHandlers, b_localHandlers, b_globalHandlers,
                   b_factories, b_regErr, nRegs, p_pc, p_event,
                   p_seq, p_snap, p_conn, p_log, g_log, nPub>>
    /\ BusFrame

\* The server becomes unreachable: every open connection breaks, and what
\* the server held for it is gone.
TransportDown ==
    /\ up
    /\ faults < MaxFaults
    /\ up' = FALSE
    /\ faults' = faults + 1
    /\ b_conn' = [b \in Buses |->
         IF b_conn[b].st = "open" THEN DeadConn("broken") ELSE b_conn[b]]
    /\ p_conn' = [b \in Buses |-> IF p_conn[b] = "ok" THEN "err" ELSE p_conn[b]]
    /\ UNCHANGED <<ready, sup, isRetry, rcv, receiveGlobalDone,
                   b_eventHandlers, b_localHandlers, b_globalHandlers,
                   b_factories, b_regErr, nRegs, closeCalled, p_pc, p_event,
                   p_seq, p_snap, p_log, g_log, nPub>>
    /\ BusFrame

\* The server is reachable again.
TransportUp ==
    /\ ~up
    /\ up' = TRUE
    /\ UNCHANGED <<faults, ready, sup, isRetry, b_conn, rcv, receiveGlobalDone,
                   b_eventHandlers, b_localHandlers, b_globalHandlers,
                   b_factories, b_regErr, nRegs, closeCalled, p_pc, p_event,
                   p_seq, p_snap, p_conn, p_log, g_log, nPub>>
    /\ BusFrame

\* What a registration call leaves alone.
RegFrame ==
    /\ nRegs' = nRegs + 1
    /\ UNCHANGED <<up, faults, ready, sup, isRetry, b_conn, rcv,
                   receiveGlobalDone, closeCalled, p_pc, p_event, p_seq,
                   p_snap, p_conn, p_log, g_log, nPub>>
    /\ BusFrame

\* The program of b may call into it.
Callable(b) == Constructed(b) /\ Alive(b)

\* AddHandler(handler, event) (lines 108-116).
AddHandler(b, h, t) ==
    /\ Callable(b) /\ nRegs < MaxRegs
    /\ b_eventHandlers' = [b_eventHandlers EXCEPT ![b][t] = @ \cup {h}]
    /\ UNCHANGED <<b_localHandlers, b_globalHandlers, b_factories, b_regErr>>
    /\ RegFrame

\* A local registration that also enters the handler in the global table.
AddLocalHandlerEverywhere(b, h) ==
    /\ Callable(b) /\ nRegs < MaxRegs
    /\ b_localHandlers' = [b_localHandlers EXCEPT ![b] = @ \cup {h}]
    /\ b_globalHandlers' = [b_globalHandlers EXCEPT ![b] = @ \cup {h}]
    /\ UNCHANGED <<b_eventHandlers, b_factories, b_regErr>>
    /\ RegFrame

\* AddLocalHandler(handler) (lines 119-121).
AddLocalHandler(b, h) ==
    /\ Callable(b) /\ nRegs < MaxRegs
    /\ b_localHandlers' = [b_localHandlers EXCEPT ![b] = @ \cup {h}]
    /\ UNCHANGED <<b_eventHandlers, b_globalHandlers, b_factories, b_regErr>>
    /\ RegFrame

\* AddGlobalHandler(handler) (lines 124-126).
AddGlobalHandler(b, h) ==
    /\ Callable(b) /\ nRegs < MaxRegs
    /\ b_globalHandlers' = [b_globalHandlers EXCEPT ![b] = @ \cup {h}]
    /\ UNCHANGED <<b_eventHandlers, b_localHandlers, b_factories, b_regErr>>
    /\ RegFrame

\* A registration that reports the duplicate and overrides the factory.
B_RegisterEventTypeOverriding(b, tag, concrete) ==
    /\ Callable(b) /\ nRegs < MaxRegs
    /\ b_factories' = [b_factories EXCEPT ![b][tag] = concrete]
    /\ b_regErr' = [b_regErr EXCEPT ![b] =
         IF b_factories[b][tag] # Nil THEN ErrHandlerAlreadySet ELSE Nil]
    /\ UNCHANGED <<b_eventHandlers, b_localHandlers, b_globalHandlers>>
    /\ RegFrame

\* RegisterEventType(event, factory) on the bus (lines 133-141).
B_RegisterEventType(b, tag, concrete) ==
    /\ Callable(b) /\ nRegs < MaxRegs
    /\ IF b_factories[b][tag] # Nil
       THEN /\ b_regErr' = [b_regErr EXCEPT ![b] = ErrHandlerAlreadySet]
            /\ UNCHANGED b_factories
       ELSE /\ b_factories' = [b_factories EXCEPT ![b][tag] = concrete]
            /\ b_regErr' = [b_regErr EXCEPT ![b] = Nil]
    /\ UNCHANGED <<b_eventHandlers, b_localHandlers, b_globalHandlers>>
    /\ RegFrame

\* The handler table of a name: eventHandlers[type] (line 90),
\* localHandlers (line 97), globalHandlers (line 245).
TableOf(b, tbl) ==
    CASE tbl = "local" -> b_localHandlers[b]
      [] tbl = "global" -> b_globalHandlers[b]
      [] OTHER -> b_eventHandlers[b][tbl]

\* The frame of a step of a range loop.
RangeFrame ==
    UNCHANGED <<up, faults, ready, sup, isRetry, rcv, receiveGlobalDone,
                b_eventHandlers, b_localHandlers, b_globalHandlers,
                b_factories, b_regErr, nRegs, closeCalled, p_event, p_seq,
                p_snap, p_conn, nPub, s_vars>>

\* A range loop over a handler table starts: "for handler := range" in
\* PublishEvent (lines 90-91, 97), run by the caller of PublishEvent, and in
\* receiveGlobal (line 245), run by the receive loop on a decoded message.
RangeBegin(b, tbl) ==
    /\ Alive(b)
    /\ ~ranging[b][tbl].on
    /\ CASE tbl = "local" -> p_pc[b] = "local"
         [] tbl = "global" ->
              /\ rcv[b] = "running"
              /\ b_conn[b].st = "open"
              /\ b_conn[b].inbox # <<>>
              /\ Head(b_conn[b].inbox).kind = "pmessage"
              /\ Decode(b, Head(b_conn[b].inbox)).ok
         [] OTHER -> p_pc[b] = "typed" /\ p_event[b].type = tbl
    /\ ranging' = [ranging EXCEPT ![b][tbl] =
                      [on |-> TRUE, left |-> TableOf(b, tbl), to |-> {}]]
    /\ UNCHANGED <<b_conn, p_pc, p_log, g_log>>
    /\ RangeFrame

\* handler.HandleEvent(event) for the next key of the range (lines 92, 98,
\* 246).
RangeVisit(b, tbl, h) ==
    /\ Alive(b)
    /\ ranging[b][tbl].on
    /\ h \in ranging[b][tbl].left
    /\ ranging' = [ranging EXCEPT ![b][tbl] =
                      [on |-> TRUE, left |-> @.left \ {h},
                       to |-> @.to \cup {h}]]
    /\ UNCHANGED <<b_conn, p_pc, p_log, g_log>>
    /\ RangeFrame

\* The range loop has produced every key: PublishEvent goes on to its next
\* part, receiveGlobal to its next Receive.
RangeEnd(b, tbl) ==
    /\ Alive(b)
    /\ ranging[b][tbl].on
    /\ ranging[b][tbl].left = {}
    /\ ranging' = [ranging EXCEPT ![b][tbl] = NoRange]
    /\ IF tbl = "global"
       THEN /\ g_log' = [g_log EXCEPT ![b] = Append(@,
                 [seq |-> Head(b_conn[b].inbox).seq,
                  event |-> Decode(b, Head(b_conn[b].inbox)).event,
                  to |-> ranging[b][tbl].to])]
            /\ b_conn' = [b_conn EXCEPT ![b].inbox = Tail(@)]
            /\ UNCHANGED <<p_pc, p_log>>
       ELSE /\ p_log' = [p_log EXCEPT ![b] = Append(@,
                 [seq |-> p_seq[b],
                  scope |-> IF tbl = "local" THEN "local" ELSE "typed",
                  event |-> p_event[b], to |-> ranging[b][tbl].to])]
            /\ p_pc' = [p_pc EXCEPT ![b] =
                          IF tbl = "local" THEN "get" ELSE "local"]
            /\ UNCHANGED <<b_conn, g_log>>
    /\ RangeFrame

\* An Add*Handler write that takes a lock the range loops hold.
AddToTableLocked(b, tbl, h) ==
    /\ Callable(b) /\ nRegs < MaxRegs
    /\ ~ranging[b][tbl].on
    /\ CASE tbl = "local" ->
              /\ b_localHandlers' = [b_localHandlers EXCEPT ![b] = @ \cup {h}]
              /\ UNCHANGED <<b_eventHandlers, b_globalHandlers>>
         [] tbl = "global" ->
              /\ b_globalHandlers' = [b_globalHandlers EXCEPT ![b] = @ \cup {h}]
              /\ UNCHANGED <<b_eventHandlers, b_localHandlers>>
         [] OTHER ->
              /\ b_eventHandlers' = [b_eventHandlers EXCEPT
                    ![b][tbl] = @ \cup {h}]
              /\ UNCHANGED <<b_localHandlers, b_globalHandlers>>
    /\ UNCHANGED <<b_factories, b_regErr>>
    /\ RegFrame

\* The map write of AddHandler (line 115), AddLocalHandler (line 120) or
\* AddGlobalHandler (line 125) to a table: no lock is taken,
\* so the write is possible whatever the range loops are doing.
AddToTable(b, tbl, h) ==
    CASE tbl = "local" -> AddLocalHandler(b, h)
      [] tbl = "global" -> AddGlobalHandler(b, h)
      [] OTHER -> AddHandler(b, h, tbl)

\* The same write made by the program while a range loop over the table is
\* between two of its keys.  The two accesses are not ordered: the build may
\* let the loop produce the new key later on (seen), it may let the loop
\* miss it, which is the step AddToTable, or the Go runtime may detect the
\* concurrent map access and end the process (fatal).
AddRacing(b, tbl, h, outcome) ==
    /\ Callable(b) /\ nRegs < MaxRegs
    /\ ranging[b][tbl].on
    /\ nRegs' = nRegs + 1
    /\ CASE tbl = "local" ->
              /\ b_localHandlers' = [b_localHandlers EXCEPT ![b] = @ \cup {h}]
              /\ UNCHANGED <<b_eventHandlers, b_globalHandlers>>
         [] tbl = "global" ->
              /\ b_globalHandlers' = [b_globalHandlers EXCEPT ![b] = @ \cup {h}]
              /\ UNCHANGED <<b_eventHandlers, b_localHandlers>>
         [] OTHER ->
              /\ b_eventHandlers' = [b_eventHandlers EXCEPT
                    ![b][tbl] = @ \cup {h}]
              /\ UNCHANGED <<b_localHandlers, b_globalHandlers>>
    /\ IF outcome = "fatal"
       THEN /\ sup' = [sup EXCEPT ![b] = "crashed"]
            /\ rcv' = [rcv EXCEPT ![b] = "none"]
            /\ b_conn' = [b_conn EXCEPT ![b] = DeadConn("closed")]
            /\ ranging' = [ranging EXCEPT ![b] = [s \in TableNames |-> NoRange]]
       ELSE /\ ranging' = [ranging EXCEPT ![b][tbl].left =
                             @ \cup ({h} \ ranging[b][tbl].to)]
            /\ UNCHANGED <<sup, rcv, b_conn>>
    /\ UNCHANGED <<up, faults, ready, isRetry, receiveGlobalDone, b_factories,
                   b_regErr, closeCalled, p_pc, p_event, p_seq, p_snap,
                   p_conn, p_log, g_log, nPub, s_vars>>

\* receiveGlobal drops a message it cannot decode (lines 232-243).
ReceiveUndecodable(b) ==
    /\ ReceivePMessage(b)
    /\ ~Decode(b, Head(b_conn[b].inbox)).ok

\* What a step of PublishEvent leaves alone.
PubFrame ==
    /\ UNCHANGED <<up, faults, ready, sup, isRetry, rcv, receiveGlobalDone,
                   b_eventHandlers, b_localHandlers, b_globalHandlers,
                   b_factories, b_regErr, nRegs, closeCalled, g_log>>
    /\ BusFrame

\* PublishEvent(event) is called on b.
PublishCall(b, e) ==
    /\ Callable(b) /\ nPub < MaxPublish
    /\ p_pc[b] = "idle"
    /\ nPub' = nPub + 1
    /\ p_pc' = [p_pc EXCEPT ![b] = "typed"]
    /\ p_event' = [p_event EXCEPT ![b] = e]
    /\ p_seq' = [p_seq EXCEPT ![b] = nPub + 1]
    /\ p_snap' = [p_snap EXCEPT ![b] =
         [typed |-> b_eventHandlers[b][e.type], local |-> b_localHandlers[b]]]
    /\ UNCHANGED <<b_conn, p_conn, p_log>>
    /\ PubFrame

\* A dispatch that is skipped while the server is unreachable.
TypedTargetsWhenUp(b) ==
    IF up THEN b_eventHandlers[b][p_event[b].type] ELSE {}

\* The handlers PublishEvent finds for the event's type (line 91).
TypedTargets(b) == b_eventHandlers[b][p_event[b].type]

\* The dispatch to the handlers of the event's type (lines 91-95).
PublishTyped(b) ==
    /\ Alive(b)
    /\ p_pc[b] = "typed"
    /\ p_log' = [p_log EXCEPT ![b] = Append(@,
         [seq |-> p_seq[b], scope |-> "typed", event |-> p_event[b],
          to |-> TypedTargets(b)])]
    /\ p_pc' = [p_pc EXCEPT ![b] = "local"]
    /\ UNCHANGED <<b_conn, p_event, p_seq, p_snap, p_conn, nPub>>
    /\ PubFrame

\* The dispatch to the local handlers (lines 97-100).
PublishLocal(b) ==
    /\ Alive(b)
    /\ p_pc[b] = "local"
    /\ p_log' = [p_log EXCEPT ![b] = Append(@,
         [seq |-> p_seq[b], scope |-> "local", event |-> p_event[b],
          to |-> b_localHandlers[b]])]
    /\ p_pc' = [p_pc EXCEPT ![b] = "get"]
    /\ UNCHANGED <<b_conn, p_event, p_seq, p_snap, p_conn, nPub>>
    /\ PubFrame

\* publishGlobal: pool.Get() and conn.Err() (lines 152-156).  An error is
\* logged and publishGlobal goes on.
PublishGet(b) ==
    /\ Alive(b)
    /\ p_pc[b] = "get"
    /\ p_conn' = [p_conn EXCEPT ![b] = IF up THEN "ok" ELSE "err"]
    /\ p_pc' = [p_pc EXCEPT ![b] = "do"]
    /\ UNCHANGED <<b_conn, p_event, p_seq, p_snap, p_log, nPub>>
    /\ PubFrame

\* The payload publishGlobal hands to PUBLISH (lines 159-163): a marshal
\* error is logged and data stays nil.
PublishData(e) == Marshal(e).doc

\* The connections the server delivers a published message to.
Subscribers == {c \in Buses : b_conn[c].st = "open" /\ b_conn[c].sub}

\* A transmission the server keeps from the publisher's own subscription.
PublishDoToOthers(b) ==
    /\ Alive(b)
    /\ p_pc[b] = "do"
    /\ b_conn' = IF p_conn[b] = "ok"
                 THEN [c \in Buses |->
                        IF c \in Subscribers \ {b}
                        THEN [b_conn[c] EXCEPT !.inbox = Append(@,
                               PMessage(p_event[b].type, PublishData(p_event[b]),
                                        p_seq[b]))]
                        ELSE b_conn[c]]
                 ELSE b_conn
    /\ p_conn' = [p_conn EXCEPT ![b] = "none"]
    /\ p_pc' = [p_pc EXCEPT ![b] = "idle"]
    /\ UNCHANGED <<p_event, p_seq, p_snap, p_log, nPub>>
    /\ PubFrame

\* publishGlobal: Marshal, conn.Do("PUBLISH", ...) and the deferred
\* conn.Close() (lines 153, 159-168).  On a healthy connection the server
\* queues the message for every subscribed connection; an error of Do is
\* logged.
PublishDo(b) ==
    /\ Alive(b)
    /\ p_pc[b] = "do"
    /\ b_conn' = IF p_conn[b] = "ok"
                 THEN [c \in Buses |->
                        IF c \in Subscribers
                        THEN [b_conn[c] EXCEPT !.inbox = Append(@,
                               PMessage(p_event[b].type, PublishData(p_event[b]),
                                        p_seq[b]))]
                        ELSE b_conn[c]]
                 ELSE b_conn
    /\ p_conn' = [p_conn EXCEPT ![b] = "none"]
    /\ p_pc' = [p_pc EXCEPT ![b] = "idle"]
    /\ UNCHANGED <<p_event, p_seq, p_snap, p_log, nPub>>
    /\ PubFrame

\* ------------------------------------------------------ specifications

StoreInit ==
    /\ coll = {}
    /\ s_eventBus = TRUE
    /\ s_factories = [t \in EventTypes |-> Nil]
    /\ s_pc = [w \in Writers |-> "idle"]
    /\ s_n = [w \in Writers |-> 0]
    /\ s_batch = [w \in Writers |-> <<>>]
    /\ s_existing = [w \in Writers |-> <<>>]
    /\ s_err = [w \in Writers |-> Nil]
    /\ s_fault = [w \in Writers |-> FALSE]
    /\ s_log = [w \in Writers |-> <<>>]
    /\ s_appends = [i \in Ids |-> 0]
    /\ s_published = [w \in Writers |-> <<>>]
    /\ s_regErr = Nil
    /\ loadOut = NoLoad

\* The payloads another client of the namespace may send: an encoded event
\* or bytes that are no document.
RemoteDocs == {PublishData(e) : e \in BusEvents}

\* PUBLISH prefix+t doc by another client of the namespace, as publishGlobal
\* of another process sends it (lines 165-167): the server queues the
\* message for every subscribed connection.
RemotePublish(t, doc) ==
    /\ up
    /\ nPub < MaxRemote
    /\ nPub' = nPub + 1
    /\ b_conn' = [c \in Buses |->
         IF c \in Subscribers
         THEN [b_conn[c] EXCEPT !.inbox = Append(@, PMessage(t, doc, nPub + 1))]
         ELSE b_conn[c]]
    /\ UNCHANGED <<up, faults, ready, sup, isRetry, rcv, receiveGlobalDone,
                   b_eventHandlers, b_localHandlers, b_globalHandlers,
                   b_factories, b_regErr, nRegs, closeCalled, p_pc, p_event,
                   p_seq, p_snap, p_conn, p_log, g_log>>
    /\ BusFrame

BusInit ==
    /\ up = TRUE
    /\ faults = 0
    /\ ready = [b \in Buses |-> "open"]
    /\ sup = [b \in Buses |-> "connect"]
    /\ isRetry = [b \in Buses |-> FALSE]
    /\ b_conn = [b \in Buses |-> NoConn]
    /\ rcv = [b \in Buses |-> "none"]
    /\ receiveGlobalDone = [b \in Buses |-> "empty"]
    /\ b_eventHandlers = [b \in Buses |-> [t \in EventTypes |-> {}]]
    /\ b_localHandlers = [b \in Buses |-> {}]
    /\ b_globalHandlers = [b \in Buses |-> {}]
    /\ b_factories = [b \in Buses |-> [t \in EventTypes |-> Nil]]
    /\ b_regErr = [b \in Buses |-> Nil]
    /\ nRegs = 0
    /\ closeCalled = [b \in Buses |-> FALSE]
    /\ p_pc = [b \in Buses |-> "idle"]
    /\ p_event = [b \in Buses |-> Event("", "", "")]
    /\ p_seq = [b \in Buses |-> 0]
    /\ p_snap = [b \in Buses |-> [typed |-> {}, local |-> {}]]
    /\ p_conn = [b \in Buses |-> "none"]
    /\ p_log = [b \in Buses |-> <<>>]
    /\ g_log = [b \in Buses |-> <<>>]
    /\ nPub = 0
    /\ ranging = [b \in Buses |-> [s \in TableNames |-> NoRange]]

Init == StoreInit /\ BusInit

\* The events of the aggregate the concurrent callers race on.
Contended == {e \in Events : e.id = "a"}

StoreNext ==
    \/ \E w \in Writers, n \in 0..MaxBatch : SaveCall(w, n)
    \/ \E w \in Writers, e \in Contended, dbOk \in BOOLEAN : SaveProbe(w, e, dbOk)
    \/ \E w \in Writers, dbOk \in BOOLEAN : SaveInsert(w, dbOk)
    \/ \E w \in Writers, dbOk \in BOOLEAN : SaveUpdate(w, dbOk)
    \/ \E w \in Writers : SavePublish(w)
    \/ \E dbOk \in BOOLEAN : Clear(dbOk)

\* The store under Save callers racing on one aggregate, and Clear.
SpecStore == Init /\ [][StoreNext]_vars

\* The caller of the sequential scenarios.
Solo == "w1"

LoadNext ==
    \/ \E n \in 0..MaxBatch : SaveCall(Solo, n)
    \/ \E e \in Events, dbOk \in BOOLEAN : SaveProbe(Solo, e, dbOk)
    \/ \E dbOk \in BOOLEAN : SaveInsert(Solo, dbOk)
    \/ \E dbOk \in BOOLEAN : SaveUpdate(Solo, dbOk)
    \/ SavePublish(Solo)
    \/ \E dbOk \in BOOLEAN : Clear(dbOk)
    \/ \E tag \in EventTypes, concrete \in EventTypes :
          S_RegisterEventType(tag, concrete)
    \/ \E id \in Ids, dbOk \in BOOLEAN : Load(id, dbOk)

\* The store under one Save caller, with the type registry, Load and Clear.
SpecLoad == Init /\ [][LoadNext]_vars

\* The steps of the supervisor goroutine of b.
Supervise(b) ==
    \/ SupConnect(b)
    \/ SupSubscribed(b)
    \/ SupSubscribeFailed(b)
    \/ SupWait(b)

\* The buses' goroutines, Close() and the transport: programs that
\* construct their bus, let it run and close it.
SupNext ==
    \/ \E b \in Buses : SupConnect(b)
    \/ \E b \in Buses : SupSubscribed(b)
    \/ \E b \in Buses : SupSubscribeFailed(b)
    \/ \E b \in Buses : SupWait(b)
    \/ \E b \in Buses : ReceiveSubscription(b)
    \/ \E b \in Buses : ReceiveError(b)
    \/ \E b \in Buses : Close(b)
    \/ TransportDown
    \/ TransportUp

SpecSup == Init /\ [][SupNext]_vars

\* The scheduler runs every goroutine that can take a step, and an
\* unreachable server comes back; nothing obliges the transport to fail or a
\* program to call Close.
SupFairness ==
    /\ \A b \in Buses : WF_vars(Supervise(b))
    /\ \A b \in Buses : WF_vars(ReceiveSubscription(b))
    /\ \A b \in Buses : WF_vars(ReceiveError(b))
    /\ WF_vars(TransportUp)

FairSpecSup == Init /\ [][SupNext]_vars /\ SupFairness

\* The program that publishes and the program that listens.
Publisher == "A"
Listener == "B"

\* One program alone on the transport: it registers typed and local
\* handlers on its bus, publishes and may close the bus.
PubNext ==
    \/ SupConnect(Publisher)
    \/ SupSubscribed(Publisher)
    \/ SupSubscribeFailed(Publisher)
    \/ SupWait(Publisher)
    \/ ReceivePMessage(Publisher)
    \/ ReceiveSubscription(Publisher)
    \/ ReceiveError(Publisher)
    \/ Close(Publisher)
    \/ TransportDown
    \/ TransportUp
    \/ \E h \in Handlers, t \in EventTypes : AddHandler(Publisher, h, t)
    \/ \E h \in Handlers : AddLocalHandler(Publisher, h)
    \/ \E e \in BusEvents : PublishCall(Publisher, e)
    \/ PublishTyped(Publisher)
    \/ PublishLocal(Publisher)
    \/ PublishGet(Publisher)
    \/ PublishDo(Publisher)

SpecPub == Init /\ [][PubNext]_vars

\* Two programs on one transport and namespace: the publisher registers
\* typed and local handlers and publishes, the listener registers event
\* types and global handlers; neither closes its bus.
BusNext ==
    \/ \E b \in Buses : SupConnect(b)
    \/ \E b \in Buses : SupSubscribed(b)
    \/ \E b \in Buses : SupSubscribeFailed(b)
    \/ \E b \in Buses : SupWait(b)
    \/ \E b \in Buses : ReceivePMessage(b)
    \/ \E b \in Buses : ReceiveSubscription(b)
    \/ \E b \in Buses : ReceiveError(b)
    \/ TransportDown
    \/ TransportUp
    \/ \E h \in Handlers, t \in EventTypes : AddHandler(Publisher, h, t)
    \/ \E h \in Handlers : AddLocalHandler(Publisher, h)
    \/ \E h \in Handlers : AddGlobalHandler(Listener, h)
    \/ \E tag \in EventTypes, concrete \in EventTypes :
          B_RegisterEventType(Listener, tag, concrete)
    \/ \E e \in BusEvents : PublishCall(Publisher, e)
    \/ PublishTyped(Publisher)
    \/ PublishLocal(Publisher)
    \/ PublishGet(Publisher)
    \/ PublishDo(Publisher)

SpecBus == Init /\ [][BusNext]_vars

\* A program that uses the store from one goroutine, on a storage that does
\* not fail, and registers event types on the store and on its bus.
RegNext ==
    \/ \E n \in 0..MaxBatch : SaveCall(Solo, n)
    \/ \E e \in Events : SaveProbe(Solo, e, TRUE)
    \/ SaveInsert(Solo, TRUE)
    \/ SaveUpdate(Solo, TRUE)
    \/ SavePublish(Solo)
    \/ \E tag \in EventTypes, concrete \in EventTypes :
          S_RegisterEventType(tag, concrete)
    \/ \E id \in Ids : Load(id, TRUE)
    \/ SupConnect(Listener)
    \/ SupSubscribed(Listener)
    \/ \E tag \in EventTypes, concrete \in EventTypes :
          B_RegisterEventType(Listener, tag, concrete)

SpecReg == Init /\ [][RegNext]_vars

\* The listening program, its bus and the transport, with other clients of
\* the namespace publishing.
RecvNext ==
    \/ SupConnect(Listener)
    \/ SupSubscribed(Listener)
    \/ SupSubscribeFailed(Listener)
    \/ SupWait(Listener)
    \/ ReceivePMessage(Listener)
    \/ ReceiveSubscription(Listener)
    \/ ReceiveError(Listener)
    \/ Close(Listener)
    \/ TransportDown
    \/ TransportUp
    \/ \E h \in Handlers : AddGlobalHandler(Listener, h)
    \/ \E tag \in EventTypes, concrete \in EventTypes :
          B_RegisterEventType(Listener, tag, concrete)
    \/ \E t \in EventTypes, doc \in RemoteDocs : RemotePublish(t, doc)

SpecRecv == Init /\ [][RecvNext]_vars

\* One program on a healthy transport: it registers handlers in the three
\* scopes and event types on its bus and publishes; its own publications
\* come back to it through the subscription.
HandlerNext ==
    \/ SupConnect(Publisher)
    \/ SupSubscribed(Publisher)
    \/ ReceivePMessage(Publisher)
    \/ ReceiveSubscription(Publisher)
    \/ \E h \in Handlers, t \in EventTypes : AddHandler(Publisher, h, t)
    \/ \E h \in Handlers : AddLocalHandler(Publisher, h)
    \/ \E h \in Handlers : AddGlobalHandler(Publisher, h)
    \/ \E tag \in EventTypes, concrete \in EventTypes :
          B_RegisterEventType(Publisher, tag, concrete)
    \/ \E e \in BusEvents : PublishCall(Publisher, e)
    \/ PublishTyped(Publisher)
    \/ PublishLocal(Publisher)
    \/ PublishGet(Publisher)
    \/ PublishDo(Publisher)

SpecHandlers == Init /\ [][HandlerNext]_vars

\* Two programs on a healthy transport: the publisher of SpecHandlers, and a
\* listener that subscribes, registers and receives.
SelfNext ==
    \/ HandlerNext
    \/ SupConnect(Listener)
    \/ SupSubscribed(Listener)
    \/ ReceivePMessage(Listener)
    \/ ReceiveSubscription(Listener)
    \/ \E h \in Handlers : AddGlobalHandler(Listener, h)
    \/ \E tag \in EventTypes, concrete \in EventTypes :
          B_RegisterEventType(Listener, tag, concrete)

SpecSelf == Init /\ [][SelfNext]_vars

\* The program of SpecHandlers with the range loops of its dispatches taken
\* one handler at a time, so that the program's registrations interleave
\* with them.
RaceNext ==
    \/ SupConnect(Publisher)
    \/ SupSubscribed(Publisher)
    \/ ReceiveSubscription(Publisher)
    \/ ReceiveUndecodable(Publisher)
    \/ \E s \in TableNames : RangeBegin(Publisher, s)
    \/ \E s \in TableNames, h \in Handlers : RangeVisit(Publisher, s, h)
    \/ \E s \in TableNames : RangeEnd(Publisher, s)
    \/ \E s \in TableNames, h \in Handlers : AddToTable(Publisher, s, h)
    \/ \E s \in TableNames, h \in Handlers, o \in {"seen", "fatal"} :
          AddRacing(Publisher, s, h, o)
    \/ \E tag \in EventTypes, concrete \in EventTypes :
          B_RegisterEventType(Publisher, tag, concrete)
    \/ \E e \in BusEvents : PublishCall(Publisher, e)
    \/ PublishGet(Publisher)
    \/ PublishDo(Publisher)

SpecRace == Init /\ [][RaceNext]_vars

\* The steps of a PublishEvent call on b after the call itself.
PublishStep(b) ==
    \/ PublishTyped(b)
    \/ PublishLocal(b)
    \/ PublishGet(b)
    \/ PublishDo(b)

\* As SupFairness, with the receive loop's message branch and the
\* publishing goroutine.
BusFairness ==
    /\ \A b \in Buses : WF_vars(Supervise(b))
    /\ \A b \in Buses : WF_vars(ReceivePMessage(b))
    /\ \A b \in Buses : WF_vars(ReceiveSubscription(b))
    /\ \A b \in Buses : WF_vars(ReceiveError(b))
    /\ WF_vars(PublishStep(Publisher))
    /\ WF_vars(TransportUp)

FairSpecBus == Init /\ [][BusNext]_vars /\ BusFairness

\* ------------------------------------------------------------ the claims

\* The stream stored for id i, when there is one.
Stream(i) == CHOOSE d \in coll : d.id = i

\* The entries of all callers' commit logs, and those no Clear has wiped
\* since.
Commits ==
    UNION {{[by |-> w, at |-> j, id |-> s_log[w][j].id,
             version |-> s_log[w][j].version, op |-> s_log[w][j].op,
             live |-> s_log[w][j].live] : j \in 1..Len(s_log[w])} :
           w \in Writers}

LiveCommits == {c \in Commits : c.live}

\* Where a caller stands: about to insert, about to append conditionally,
\* returned with an error of the loop.
AtInsert(w) == s_pc[w] = "write" /\ s_existing[w] = <<>>
AtUpdate(w) == s_pc[w] = "write" /\ s_existing[w] # <<>>
Failed(w) == s_pc[w] = "done" /\ s_err[w] \notin {Nil, ErrNoEventsToAppend}
FailedWrite(w) == s_pc[w] = "done" /\ s_err[w] = ErrCouldNotSaveAggregate

\* C1: in every reachable state, under any interleaving of Save calls and
\* Clear, every stored stream has Version = number of its records and its
\* i-th record carries version i.
C1_StreamVersions ==
    \A d \in coll :
        /\ d.version = Len(d.events)
        /\ \A i \in 1..Len(d.events) : d.events[i].version = i

\* C1's case: a stream of two or more records that both callers wrote to,
\* in a store that was cleared before.
C1_Witness ==
    \E d \in coll :
        /\ d.version >= 2
        /\ \A w \in Writers : \E c \in LiveCommits : c.by = w /\ c.id = d.id
        /\ \E w \in Writers : \E j \in 1..Len(s_log[w]) : ~s_log[w][j].live

\* C2: of the conditional appends that race on one stream from the same
\* probed version (between two Clears) at most one succeeds; an append whose
\* probed version is no longer the stream's returns ErrCouldNotSaveAggregate
\* and changes nothing; a winning append advances the version by one, so the
\* version is that of the insert plus the appends that returned success.
C2_RacingAppends ==
    /\ [](\A c1, c2 \in LiveCommits :
            (c1.op = "append" /\ c2.op = "append" /\ c1.id = c2.id
             /\ c1.version = c2.version) => c1 = c2)
    /\ [](\A d \in coll : d.version = 1 + s_appends[d.id])
    /\ [][\A w \in Writers :
            (AtUpdate(w) /\ s_pc'[w] # "write") =>
              IF \E d \in coll : d.id = Cur(w).id /\ d.version = s_existing[w][1]
              THEN \/ /\ s_pc'[w] = "publish"
                      /\ \E d \in coll, d2 \in coll' :
                           /\ d.id = Cur(w).id /\ d2.id = Cur(w).id
                           /\ d2.version = d.version + 1
                           /\ s_appends'[d.id] = s_appends[d.id] + 1
                   \/ /\ FailedWrite(w)' /\ s_fault'[w] /\ coll' = coll
                      /\ s_appends' = s_appends
              ELSE FailedWrite(w)' /\ coll' = coll /\ s_appends' = s_appends]_vars

\* C2's case: both callers probed the same version of one stream; one
\* appended, the other lost the race and returned the error.
C2_Witness ==
    \E w1, w2 \in Writers :
        /\ w1 # w2
        /\ FailedWrite(w2) /\ ~s_fault[w2] /\ s_existing[w2] # <<>>
        /\ \E c \in LiveCommits :
             /\ c.by = w1 /\ c.op = "append" /\ c.id = Cur(w2).id
             /\ c.version = s_existing[w2][1] + 1

\* C4: a Save that returns an error of its loop at the k-th event has read
\* k events and committed exactly the first k-1; and what a call committed
\* stays in its stream, at its version, until a Clear (no rollback).
C4_PartialCommit ==
    \A w \in Writers :
        /\ Failed(w) =>
             /\ Len(s_batch[w]) <= s_n[w]
             /\ Len(s_log[w]) = Len(s_batch[w]) - 1
        /\ Len(s_log[w]) <= Len(s_batch[w])
        /\ \A j \in 1..Len(s_log[w]) :
             /\ s_log[w][j].id = s_batch[w][j].id
             /\ s_log[w][j].live =>
                  \E d \in coll :
                     /\ d.id = s_log[w][j].id
                     /\ Len(d.events) >= s_log[w][j].version
                     /\ d.events[s_log[w][j].version] =
                          EventRecord(s_batch[w][j], s_log[w][j].version)

\* C4's case: the second event of a batch failed after the first was
\* committed, and the first is still stored.
C4_Witness ==
    \E w \in Writers :
        /\ Failed(w) /\ Len(s_batch[w]) = 2
        /\ s_log[w][1].live

\* C5: there is at most one stream per id and at most one successful insert
\* per id between two Clears; an insert that finds the stream already
\* created returns ErrCouldNotSaveAggregate and stores nothing; an insert
\* that finds none creates the stream at version 1 with its single record,
\* unless the storage fails; an insert that failed with the storage healthy
\* lost to the other caller's insert.
C5_RacingInserts ==
    /\ [](\A i \in Ids : Cardinality(FindId(coll, i)) <= 1)
    /\ [](\A c1, c2 \in LiveCommits :
            (c1.op = "insert" /\ c2.op = "insert" /\ c1.id = c2.id) => c1 = c2)
    /\ [](\A w \in Writers :
            (FailedWrite(w) /\ s_existing[w] = <<>> /\ ~s_fault[w]) =>
              \E c \in Commits :
                 c.by # w /\ c.op = "insert" /\ c.id = Cur(w).id)
    /\ [][\A w \in Writers :
            (AtInsert(w) /\ s_pc'[w] # "write") =>
              IF FindId(coll, Cur(w).id) # {}
              THEN FailedWrite(w)' /\ coll' = coll
              ELSE \/ /\ s_pc'[w] = "publish"
                      /\ coll' = coll \cup
                           {[id |-> Cur(w).id, version |-> 1,
                             events |-> <<[type |-> Cur(w).type, version |-> 1,
                                           data |-> <<Cur(w).id, Cur(w).data>>]>>]}
                   \/ FailedWrite(w)' /\ s_fault'[w] /\ coll' = coll]_vars

\* C5's case: both callers probed an id with no stream; one inserted it, the
\* other's insert failed, and the stream holds the winner's single record.
C5_Witness ==
    \E w1, w2 \in Writers :
        /\ w1 # w2
        /\ FailedWrite(w2) /\ s_existing[w2] = <<>> /\ ~s_fault[w2]
        /\ \E c \in LiveCommits :
             /\ c.by = w1 /\ c.op = "insert" /\ c.id = Cur(w2).id
             /\ Cur(w2) # s_batch[w1][c.at]
             /\ \E d \in coll :
                  /\ d.id = c.id /\ d.version = 1
                  /\ d.events = <<EventRecord(s_batch[w1][c.at], 1)>>

\* The Save of caller w returned nil for a batch whose events all belong to
\* id i, which had no stream when the call began, and no Clear ran since.
SavedNewStream(w, i) ==
    /\ s_pc[w] = "done" /\ s_err[w] = Nil
    /\ \A j \in 1..Len(s_batch[w]) : s_batch[w][j].id = i
    /\ s_log[w][1].op = "insert"
    /\ \A j \in 1..Len(s_log[w]) : s_log[w][j].live

\* The store has, for the type of e, a factory that builds events of that
\* type.
Registered(e) == s_factories[e.type] = e.type

\* The Load that followed returned the batch of w in order, and the stream
\* holds it under versions 1..N.
LoadedBatch(w, i) ==
    /\ loadOut.err = Nil
    /\ loadOut.events = s_batch[w]
    /\ \E d \in coll :
          /\ d.id = i /\ d.version = Len(s_batch[w])
          /\ \A j \in 1..Len(s_batch[w]) : d.events[j].version = j

\* C3 as stated: after a successful Save of a batch on a new id, a Load of
\* the id whose query does not fail returns the batch.
C3_AsStated ==
    \A i \in Ids :
        (SavedNewStream(Solo, i) /\ loadOut.called /\ loadOut.id = i
         /\ loadOut.err # ErrCouldNotLoadAggregate) => LoadedBatch(Solo, i)

\* C3, amended: after a successful Save of a batch on a new id, a Load of
\* the id whose query does not fail returns exactly the batch, in order,
\* stored under versions 1..N, provided the store has for each event's type
\* a registered factory that builds that type.
C3_SaveThenLoad ==
    \A i \in Ids :
        (SavedNewStream(Solo, i) /\ loadOut.called /\ loadOut.id = i
         /\ loadOut.err # ErrCouldNotLoadAggregate
         /\ \A j \in 1..Len(s_batch[Solo]) : Registered(s_batch[Solo][j]))
        => LoadedBatch(Solo, i)

\* C3's case: a batch of two different events was saved on a new id and
\* loaded back.
C3_Witness ==
    \E i \in Ids :
        /\ SavedNewStream(Solo, i) /\ loadOut.called /\ loadOut.id = i
        /\ Len(s_batch[Solo]) = 2 /\ s_batch[Solo][1] # s_batch[Solo][2]
        /\ \A j \in 1..2 : Registered(s_batch[Solo][j])
        /\ loadOut.err = Nil /\ loadOut.events = s_batch[Solo]

\* ------------------------------------------------------- the bus's claims

\* The supervisor of b is in Receiving: subscribed, its receive loop running.
Receiving(b) == sup[b] = "wait" /\ rcv[b] = "running"

\* The supervisor of b has stopped: returned, or ended by a panic.
Stopped(b) == sup[b] \in {"returned", "crashed"}

\* C9: once construction has returned a bus, its supervisor stops (returns
\* or crashes) only as the result of an explicit Close(): in every reachable
\* state a constructed bus whose supervisor has stopped has had Close()
\* called on it.
C9_StopsOnlyOnClose ==
    \A b \in Buses : (Constructed(b) /\ Stopped(b)) => closeCalled[b]

\* C8: after a receive error in Receiving the supervisor of b closes the
\* connection, retries with no call from outside and, the transport being
\* available again, is eventually back in Receiving.
C8_Reconnects ==
    \A b \in Buses : (receiveGlobalDone[b] = "false") ~> Receiving(b)

\* C10: after Close() on a constructed bus, whatever state its supervisor is
\* in at that moment, the supervisor eventually ends (its receive loop over
\* and the supervisor returned; a supervisor ended by a panic is let pass
\* here) and stays ended.
C10_CloseTerminates ==
    /\ \A b \in Buses : closeCalled[b] ~> (Stopped(b) /\ rcv[b] = "none")
    /\ \A b \in Buses : [](Stopped(b) => [](Stopped(b)))

\* The current PublishEvent call on b has dispatched, in the given scope,
\* the published event to at least the handlers registered when it was made.
DispatchedTo(b, scope, handlers) ==
    \E k \in DOMAIN p_log[b] :
        /\ p_log[b][k].seq = p_seq[b]
        /\ p_log[b][k].scope = scope
        /\ p_log[b][k].event = p_event[b]
        /\ handlers \subseteq p_log[b][k].to

\* C6: a PublishEvent call that has reached the transport part, or has
\* returned, has invoked every handler registered for the event's type and
\* every local handler, whatever the transport did; and while the call runs
\* its next step can always be taken, so that no failure to connect, to
\* encode or to transmit keeps it from returning.
C6_PublishDispatches ==
    \A b \in Buses :
        /\ (p_seq[b] > 0 /\ p_pc[b] \in {"get", "do", "idle"}) =>
              /\ DispatchedTo(b, "typed", p_snap[b].typed)
              /\ DispatchedTo(b, "local", p_snap[b].local)
        /\ (Alive(b) /\ p_pc[b] # "idle") => ENABLED PublishStep(b)

\* A call with a typed and a local handler registered has dispatched and
\* then found no usable connection.
C6_Witness ==
    \E b \in Buses :
        /\ p_pc[b] = "do" /\ p_conn[b] = "err"
        /\ p_snap[b].typed # {} /\ p_snap[b].local # {}

\* The receive loop of c has handed the event of PublishEvent call n of the
\* publisher, as published, to a global handler.
Handled(c, n) ==
    \E k \in DOMAIN g_log[c] :
        /\ g_log[c][k].seq = n
        /\ g_log[c][k].to # {}
        /\ \E j \in DOMAIN p_log[Publisher] :
              /\ p_log[Publisher][j].seq = n
              /\ p_log[Publisher][j].event = g_log[c][k].event

\* PublishEvent call n, of an event that can be encoded, is under way on the
\* publisher before its transmission, while the transport is healthy and c
\* is in Receiving, subscribed, with a factory of the event's type registered
\* for that type and a global handler registered.
PublishedFor(c, n) ==
    /\ Alive(Publisher)
    /\ p_seq[Publisher] = n /\ p_pc[Publisher] = "typed"
    /\ Marshal(p_event[Publisher]).ok
    /\ up
    /\ Receiving(c) /\ b_conn[c].st = "open" /\ b_conn[c].sub
    /\ b_factories[c][p_event[Publisher].type] = p_event[Publisher].type
    /\ b_globalHandlers[c] # {}

\* C7: when the publisher publishes an event while the listener is in
\* Receiving with the event's type and a global handler registered, and the
\* transport stays healthy, the listener's global handler is eventually
\* invoked with an event equal to the published one.
C7_EventuallyHandled ==
    \A n \in 1..MaxPublish :
        PublishedFor(Listener, n) ~> (Handled(Listener, n) \/ ~up)

\* Construction of b has returned the error of the first PSubscribe.
ConstructionFailed(b) == ready[b] = "err"

\* C11: when the first PSubscribe of a construction fails, the construction
\* returns that error and no bus; the supervisor has returned without having
\* started a receive loop or retried, nothing is subscribed or queued for
\* the instance and no global handler has been invoked for it; and this
\* stays so for ever.
C11_FailedConstruction ==
    /\ [](\A b \in Buses : ConstructionFailed(b) =>
            /\ ~Constructed(b)
            /\ sup[b] = "returned" /\ rcv[b] = "none" /\ ~isRetry[b]
            /\ receiveGlobalDone[b] = "empty"
            /\ ~b_conn[b].sub /\ b_conn[b].inbox = <<>>
            /\ g_log[b] = <<>>)
    /\ [][\A b \in Buses : ConstructionFailed(b) =>
            /\ ConstructionFailed(b)'
            /\ b_conn'[b] = b_conn[b]]_vars

\* A construction has failed at its first PSubscribe.
C11_Witness ==
    \E b \in Buses : ConstructionFailed(b) /\ b_conn[b].st = "broken" /\ up

\* What the receive loop of b decodes from the message that carries the
\* encodable event e.
DecodedFrom(b, e) == Decode(b, PMessage(e.type, PublishData(e), 0))

\* C12: in the store's and in the bus's registry, a RegisterEventType call
\* for a tag that already has a factory returns ErrHandlerAlreadySet and
\* leaves the registry as it was, so that what Load and the receive loop
\* decode stays the same; and no step ever changes the factory of a tag
\* that has one: each tag keeps the factory of its first registration.
C12_FirstRegistrationWins ==
    [][/\ \A tag \in EventTypes, concrete \in EventTypes :
            (S_RegisterEventType(tag, concrete) /\ s_factories[tag] # Nil) =>
                /\ s_regErr' = ErrHandlerAlreadySet
                /\ s_factories' = s_factories
                /\ \A id \in Ids : LoadResult(id, TRUE)' = LoadResult(id, TRUE)
       /\ \A b \in Buses, tag \in EventTypes, concrete \in EventTypes :
            (B_RegisterEventType(b, tag, concrete) /\ b_factories[b][tag] # Nil) =>
                /\ b_regErr'[b] = ErrHandlerAlreadySet
                /\ b_factories' = b_factories
                /\ \A e \in BusEvents : DecodedFrom(b, e)' = DecodedFrom(b, e)
       /\ \A tag \in EventTypes :
            s_factories[tag] # Nil => s_factories'[tag] = s_factories[tag]
       /\ \A b \in Buses, tag \in EventTypes :
            b_factories[b][tag] # Nil => b_factories'[b][tag] = b_factories[b][tag]
      ]_vars

\* Both registries have rejected a second registration, the store holding a
\* stream that Load decodes with the first factory.
C12_Witness ==
    /\ s_regErr = ErrHandlerAlreadySet
    /\ b_regErr[Listener] = ErrHandlerAlreadySet
    /\ \E id \in Ids :
          /\ LoadResult(id, TRUE).err = Nil
          /\ LoadResult(id, TRUE).events # <<>>

\* C13: a Load, its query answered, of an id that has no stream returns the
\* empty sequence and no error, whatever else the store holds, and leaves
\* the collection and the registry as they were.
C13_LoadOfNoStream ==
    [][\A id \in Ids :
          (Load(id, TRUE) /\ FindId(coll, id) = {}) =>
              /\ loadOut'.err = Nil
              /\ loadOut'.events = <<>>
              /\ coll' = coll
              /\ s_factories' = s_factories]_vars

\* Load has returned for an id without a stream while the store holds a
\* stream of another id.
C13_Witness ==
    /\ loadOut.called
    /\ FindId(coll, loadOut.id) = {}
    /\ coll # {}
    /\ loadOut.err = Nil

\* C14: with a bus attached, what a Save call has handed to the bus is, at
\* every moment, the sequence of the events it has committed, each once and
\* in batch order: at the publication step all but the event just committed,
\* otherwise all of them, so that an event is handed over after its own
\* commit and before the next probe, and an event whose commit failed never
\* is; and a Save whose events were all committed returns nil whatever the
\* bus did with them.
C14_PublishedAreCommitted ==
    \A w \in Writers :
        LET c == Len(s_log[w])
            p == Len(s_published[w])
        IN  /\ p <= Len(s_batch[w])
            /\ s_published[w] = SubSeq(s_batch[w], 1, p)
            /\ \A k \in 1..c : s_log[w][k].id = s_batch[w][k].id
            /\ s_pc[w] = "publish" => (c = Len(s_batch[w]) /\ p = c - 1)
            /\ s_pc[w] # "publish" => p = c
            /\ s_pc[w] = "write" => c = Len(s_batch[w]) - 1
            /\ (s_pc[w] = "done" /\ s_n[w] > 0) =>
                  (s_err[w] = Nil <=> c = s_n[w])
            /\ (s_pc[w] = "done" /\ s_n[w] > 0 /\ s_err[w] # Nil) =>
                  c = Len(s_batch[w]) - 1

\* A Save has committed and handed over its first event and failed on its
\* second, which the bus never got.
C14_Witness ==
    \E w \in Writers :
        /\ s_eventBus
        /\ s_pc[w] = "done" /\ s_err[w] # Nil
        /\ Len(s_batch[w]) = 2 /\ Len(s_published[w]) = 1

\* The message the receive loop of b is about to take.
NextMessage(b) == Head(b_conn[b].inbox)

\* C15: when the receive loop takes a message whose type has no registered
\* factory or whose payload does not decode, no global handler is invoked
\* for it, the supervisor stays in Receiving with its loop running on the
\* same connection, and the messages queued behind it are kept; a message
\* that decodes, whatever was skipped before it, is handed to the global
\* handlers.
C15_SkipsBadMessage ==
    [][\A b \in Buses :
          /\ (ReceivePMessage(b) /\ ~Decode(b, NextMessage(b)).ok) =>
                /\ g_log' = g_log
                /\ Receiving(b) /\ Receiving(b)'
                /\ receiveGlobalDone' = receiveGlobalDone
                /\ isRetry' = isRetry
                /\ b_conn'[b] = [b_conn[b] EXCEPT !.inbox = Tail(@)]
          /\ (ReceivePMessage(b) /\ Decode(b, NextMessage(b)).ok) =>
                /\ g_log'[b] = Append(g_log[b],
                      [seq |-> NextMessage(b).seq,
                       event |-> Decode(b, NextMessage(b)).event,
                       to |-> b_globalHandlers[b]])
                /\ Receiving(b)'
      ]_vars

\* The loop has skipped the first message and handed the second to a global
\* handler.
C15_Witness ==
    \E b \in Buses :
        /\ Len(g_log[b]) = 1
        /\ g_log[b][1].seq = 2
        /\ g_log[b][1].to # {}
        /\ b_conn[b].inbox = <<>>
        /\ Receiving(b)
        /\ faults = 0

\* The handlers the last dispatch of the log invoked, each of them once.
LastTo(log) == log[Len(log)].to

\* The three handler tables of all buses.
Tables == <<b_eventHandlers, b_localHandlers, b_globalHandlers>>

\* C16: a registration adds its handler to the table of its own scope (and,
\* for AddHandler, of its own event type) and to nothing else, and leaves all
\* three tables as they were when the handler is already there; a dispatch
\* to a scope invokes exactly the handlers of that scope's table, one
\* invocation per handler, however often each was registered.
C16_RegistrationIsSetMembership ==
    /\ [][\A h \in Handlers :
            /\ \A t \in EventTypes :
                 AddHandler(Publisher, h, t) =>
                    /\ b_eventHandlers' = [b_eventHandlers EXCEPT
                          ![Publisher][t] = @ \cup {h}]
                    /\ b_localHandlers' = b_localHandlers
                    /\ b_globalHandlers' = b_globalHandlers
                    /\ (h \in b_eventHandlers[Publisher][t] =>
                           Tables' = Tables)
            /\ AddLocalHandler(Publisher, h) =>
                    /\ b_localHandlers' = [b_localHandlers EXCEPT
                          ![Publisher] = @ \cup {h}]
                    /\ b_eventHandlers' = b_eventHandlers
                    /\ b_globalHandlers' = b_globalHandlers
                    /\ (h \in b_localHandlers[Publisher] => Tables' = Tables)
            /\ AddGlobalHandler(Publisher, h) =>
                    /\ b_globalHandlers' = [b_globalHandlers EXCEPT
                          ![Publisher] = @ \cup {h}]
                    /\ b_eventHandlers' = b_eventHandlers
                    /\ b_localHandlers' = b_localHandlers
                    /\ (h \in b_globalHandlers[Publisher] =>
                           Tables' = Tables)]_vars
    /\ [][/\ PublishTyped(Publisher) =>
               LastTo(p_log'[Publisher]) =
                   b_eventHandlers[Publisher][p_event[Publisher].type]
          /\ PublishLocal(Publisher) =>
               LastTo(p_log'[Publisher]) = b_localHandlers[Publisher]
          /\ (ReceivePMessage(Publisher) /\ g_log' # g_log) =>
               LastTo(g_log'[Publisher]) = b_globalHandlers[Publisher]]_vars

\* One handler was registered twice for one event type, nothing else was
\* registered, and an event of that type was dispatched to it alone.
C16_Witness ==
    \E h \in Handlers, t \in EventTypes :
        /\ nRegs = 2
        /\ b_eventHandlers[Publisher] =
              [u \in EventTypes |-> IF u = t THEN {h} ELSE {}]
        /\ b_localHandlers[Publisher] = {}
        /\ b_globalHandlers[Publisher] = {}
        /\ \A u \in EventTypes : b_factories[Publisher][u] = Nil
        /\ b_regErr[Publisher] = Nil
        /\ \E k \in DOMAIN p_log[Publisher] :
              /\ p_log[Publisher][k].scope = "typed"
              /\ p_log[Publisher][k].event.type = t
              /\ p_log[Publisher][k].to = {h}

\* Message n was published on b itself.
OwnPublication(b, n) == \E j \in DOMAIN p_log[b] : p_log[b][j].seq = n

\* C17 as stated: no global handler of a bus is invoked for an event that
\* was published on that same bus.
C17_AsStated ==
    \A b \in Buses : \A k \in DOMAIN g_log[b] :
        g_log[b][k].to # {} => ~OwnPublication(b, g_log[b][k].seq)

\* C17, amended: a published event is dispatched in-process to the handlers
\* of its type and to the local handlers of the publishing bus; its
\* transmission queues it for every subscribed connection of the namespace,
\* the publisher's own included; and a bus that receives and decodes a
\* message invokes its global handlers, whoever published it.
C17_DeliveredToOwnToo ==
    /\ [](\A b \in Buses :
            (p_seq[b] > 0 /\ p_pc[b] \in {"get", "do", "idle"}) =>
               /\ DispatchedTo(b, "typed", p_snap[b].typed)
               /\ DispatchedTo(b, "local", p_snap[b].local))
    /\ [][\A b \in Buses :
            (PublishDo(b) /\ p_conn[b] = "ok") =>
               \A c \in Subscribers :
                  b_conn'[c].inbox = Append(b_conn[c].inbox,
                     PMessage(p_event[b].type, PublishData(p_event[b]),
                              p_seq[b]))]_vars
    /\ [][\A b \in Buses :
            (ReceivePMessage(b) /\ Decode(b, NextMessage(b)).ok) =>
               g_log'[b] = Append(g_log[b],
                  [seq |-> NextMessage(b).seq,
                   event |-> Decode(b, NextMessage(b)).event,
                   to |-> b_globalHandlers[b]])]_vars

\* The publisher's own global handler was invoked with the event the
\* publisher published, while the same message was queued for the listener.
C17_Witness ==
    \E k \in DOMAIN g_log[Publisher] :
        /\ g_log[Publisher][k].to # {}
        /\ OwnPublication(Publisher, g_log[Publisher][k].seq)
        /\ g_log[Publisher][k].event = p_event[Publisher]
        /\ b_conn[Listener].inbox # <<>>
        /\ Head(b_conn[Listener].inbox).seq = g_log[Publisher][k].seq

\* C18: while a range loop over a handler table is running, on the caller
\* of PublishEvent or on the receive loop, the program's write to that same
\* table can be made: nothing makes the registration wait for the loop.
C18_WriteOverlapsDispatch ==
    \A s \in TableNames, h \in Handlers :
        (/\ ranging[Publisher][s].on
         /\ Callable(Publisher)
         /\ nRegs < MaxRegs) => ENABLED AddToTable(Publisher, s, h)

\* The receive loop is in its range over the global handlers and the table
\* holds a handler that was written after the loop had started.
C18_Witness ==
    /\ Alive(Publisher)
    /\ ranging[Publisher]["global"].on
    /\ rcv[Publisher] = "running"
    /\ ~(b_globalHandlers[Publisher] \subseteq
            ranging[Publisher]["global"].left
               \cup ranging[Publisher]["global"].to)

\* C19: while the supervisor of a bus is connecting or subscribing, no
\* receive loop of the bus runs and, before it connects, the connection of
\* the previous loop is closed; the supervisor starts a receive loop only
\* from there, so that the bus never has two loops; and no message is
\* dispatched twice by the bus.
C19_OneReceiveLoop ==
    /\ [](\A b \in Buses :
            /\ sup[b] \in {"connect", "subscribe"} => rcv[b] = "none"
            /\ sup[b] = "connect" => b_conn[b].st \in {"none", "closed"}
            /\ \A j, k \in DOMAIN g_log[b] :
                  g_log[b][j].seq = g_log[b][k].seq => j = k)
    /\ [][\A b \in Buses :
            SupSubscribed(b) => rcv[b] = "none" /\ rcv'[b] = "running"]_vars

\* After a reconnect the second receive loop of the listener runs, and the
\* listener has dispatched two messages to its global handlers.
C19_Witness ==
    /\ isRetry[Listener]
    /\ Receiving(Listener)
    /\ faults > 0
    /\ Len(g_log[Listener]) = 2
    /\ \A k \in DOMAIN g_log[Listener] : g_log[Listener][k].to # {}

\* The event of a commit has been passed to eventBus.PublishEvent.
HandedToBus(c) == s_eventBus /\ c.at <= Len(s_published[c.by])

\* C20: of two records of one entity with consecutive versions, the event
\* of the later one has been handed to the bus only if the event of the
\* earlier one has been handed to it, whichever Save calls committed them.
C20_PublishedInVersionOrder ==
    \A c, d \in LiveCommits :
        (c.id = d.id /\ d.version = c.version + 1 /\ HandedToBus(d)) =>
            HandedToBus(c)

\* C21: the transmission step of a PublishEvent call queues a message only
\* when the event was encoded and a usable connection was obtained, and
\* every published message a connection holds carries the encoding of the
\* event of the PublishEvent call it came from.
C21_TransmitsOnlyEncodings ==
    /\ [][\A b \in Buses :
            (PublishDo(b) /\ (~Marshal(p_event[b]).ok \/ p_conn[b] # "ok"))
               => b_conn' = b_conn]_vars
    /\ [](\A c \in Buses : \A k \in DOMAIN b_conn[c].inbox :
            b_conn[c].inbox[k].kind = "pmessage" =>
               \E b \in Buses : \E j \in DOMAIN p_log[b] :
                  /\ p_log[b][j].seq = b_conn[c].inbox[k].seq
                  /\ p_log[b][j].event.type = b_conn[c].inbox[k].type
                  /\ Marshal(p_log[b][j].event).ok
                  /\ b_conn[c].inbox[k].data = Marshal(p_log[b][j].event).doc)

====
